---- MODULE Spec2Model ----
(***************************************************************************)
(* Model of e_ticketer_backend/src/lib.rs: three stable maps (Event, User, *)
(* Ticket), one id counter cell, and the update calls that mutate them.    *)
(* Every update call runs to completion (one canister message), so each    *)
(* call is one action.  Query calls are pure functions of the stores.      *)
(***************************************************************************)
EXTENDS Integers, Sequences, FiniteSets, TLC

\* ---- bounds -------------------------------------------------------------
MaxId == 4      \* the id counter is not advanced beyond this value
MaxTime == 2    \* the clock is not advanced beyond this value

VARIABLES counter, events, users, tickets, now, clean

vars == <<counter, events, users, tickets, now, clean>>

\* ---- values -------------------------------------------------------------
\* Option<u64>: None / Some(t)
None == <<>>
Some(t) == <<t>>

\* every id a caller can pass: 0, which the counter never gives out, and the
\* ids it can give out
AnyId == 0..MaxId

\* The text fields are opaque to the code: no branch reads them.
EventPayload(s) ==
    [name |-> s, description |-> s, date |-> s, start_time |-> s, location |-> s]

UserPayload(s) == [name |-> s, email |-> s, password |-> s]

EventPayloads == { EventPayload(s) : s \in {"a", "b"} }

UserPayloads == { UserPayload(s) : s \in {"a", "b"} }

AnyTicketPayload == [event_id : AnyId, user_id : AnyId]

\* Ticket::default() of #[derive(Default)]
TicketDefault ==
    [id |-> 0, event_id |-> 0, user_id |-> 0, created_at |-> 0, updated_at |-> None]

\* ---- results ------------------------------------------------------------
Ok(v) == [tag |-> "Ok", kind |-> "", eid |-> 0, step |-> "", val |-> v]
NotFound(kind, id) ==
    [tag |-> "NotFound", kind |-> kind, eid |-> id, step |-> "", val |-> <<>>]
NotCreated ==
    [tag |-> "NotCreated", kind |-> "counter", eid |-> 0, step |-> "", val |-> <<>>]
AssociationErr(step, ticket) ==
    [tag |-> "AssociationError", kind |-> "", eid |-> 0, step |-> step, val |-> <<ticket>>]

LinkSteps == {"add_event_attendee", "add_user_ticket", "add_event_ticket"}

\* ---- StableBTreeMap and Vec helpers -------------------------------------
insert(m, k, v) == [x \in (DOMAIN m) \cup {k} |-> IF x = k THEN v ELSE m[x]]
remove(m, k) == [x \in (DOMAIN m) \ {k} |-> m[x]]
contains(s, x) == \E i \in DOMAIN s : s[i] = x
push(s, x) == Append(s, x)
retain_ne(s, x) == SelectSeq(s, LAMBDA y : y # x)

\* ---- clock --------------------------------------------------------------
\* ic_cdk::api::time() is constant within one call; every call sees the clock
\* one tick later than the call before it, until the clock saturates at MaxTime
\* (Time, defined with the calls below)

\* ---- id allocator -------------------------------------------------------
\* mutant: the new value is returned but not written to the cell
increment_id_counter_unsaved(c, commit) ==
    IF commit
    THEN [ok |-> TRUE, id |-> c + 1, counter |-> c]
    ELSE [ok |-> FALSE, id |-> 0, counter |-> c]

\* commit = FALSE is Cell::set returning Err: nothing is written
increment_id_counter(c, commit) ==
    IF commit
    THEN [ok |-> TRUE, id |-> c + 1, counter |-> c + 1]
    ELSE [ok |-> FALSE, id |-> 0, counter |-> c]

\* ---- single-record getters ----------------------------------------------
get_event(ev, id) ==
    IF id \in DOMAIN ev THEN Ok(<<ev[id]>>) ELSE NotFound("event", id)

get_user(us, id) ==
    IF id \in DOMAIN us THEN Ok(<<us[id]>>) ELSE NotFound("user", id)

get_ticket(tk, id) ==
    IF id \in DOMAIN tk THEN Ok(<<tk[id]>>) ELSE NotFound("ticket", id)

\* ---- relationship maintainer --------------------------------------------
\* mutant: the user id is pushed without looking for it in the list
add_event_attendee_always(ev, event_id, user_id, t) ==
    IF event_id \notin DOMAIN ev
    THEN [ok |-> FALSE, events |-> ev]
    ELSE [ok |-> TRUE,
          events |-> insert(ev, event_id,
              [ev[event_id] EXCEPT !.attendee_ids = push(@, user_id),
                                   !.updated_at = Some(t)])]

add_event_attendee(ev, event_id, user_id, t) ==
    IF event_id \notin DOMAIN ev
    THEN [ok |-> FALSE, events |-> ev]
    ELSE IF ~contains(ev[event_id].attendee_ids, user_id)
         THEN [ok |-> TRUE,
               events |-> insert(ev, event_id,
                   [ev[event_id] EXCEPT !.attendee_ids = push(@, user_id),
                                        !.updated_at = Some(t)])]
         ELSE [ok |-> TRUE, events |-> ev]

\* mutant: the pushed ticket id is not written back to the store
add_event_ticket_unsaved(ev, event_id, ticket_id, t) ==
    IF event_id \notin DOMAIN ev
    THEN [ok |-> FALSE, events |-> ev]
    ELSE [ok |-> TRUE, events |-> ev]

add_event_ticket(ev, event_id, ticket_id, t) ==
    IF event_id \notin DOMAIN ev
    THEN [ok |-> FALSE, events |-> ev]
    ELSE IF ~contains(ev[event_id].ticket_ids, ticket_id)
         THEN [ok |-> TRUE,
               events |-> insert(ev, event_id,
                   [ev[event_id] EXCEPT !.ticket_ids = push(@, ticket_id),
                                        !.updated_at = Some(t)])]
         ELSE [ok |-> TRUE, events |-> ev]

add_user_ticket(us, user_id, ticket_id, t) ==
    IF user_id \notin DOMAIN us
    THEN [ok |-> FALSE, users |-> us]
    ELSE IF ~contains(us[user_id].ticket_ids, ticket_id)
         THEN [ok |-> TRUE,
               users |-> insert(us, user_id,
                   [us[user_id] EXCEPT !.ticket_ids = push(@, ticket_id),
                                       !.updated_at = Some(t)])]
         ELSE [ok |-> TRUE, users |-> us]

\* mutant: retain keeps the ticket id instead of dropping it
remove_user_ticket_kept(us, user_id, ticket_id, t) ==
    IF user_id \notin DOMAIN us
    THEN [ok |-> FALSE, users |-> us]
    ELSE [ok |-> TRUE,
          users |-> insert(us, user_id, [us[user_id] EXCEPT !.updated_at = Some(t)])]

\* mutant: a missing user is tolerated instead of reported
remove_user_ticket_lenient(us, user_id, ticket_id, t) ==
    IF user_id \notin DOMAIN us
    THEN [ok |-> TRUE, users |-> us]
    ELSE [ok |-> TRUE,
          users |-> insert(us, user_id,
              [us[user_id] EXCEPT !.ticket_ids = retain_ne(@, ticket_id),
                                  !.updated_at = Some(t)])]

remove_user_ticket(us, user_id, ticket_id, t) ==
    IF user_id \notin DOMAIN us
    THEN [ok |-> FALSE, users |-> us]
    ELSE [ok |-> TRUE,
          users |-> insert(us, user_id,
              [us[user_id] EXCEPT !.ticket_ids = retain_ne(@, ticket_id),
                                  !.updated_at = Some(t)])]

\* mutant: retain keeps the ticket id instead of dropping it
remove_event_ticket_kept(ev, event_id, ticket_id, t) ==
    IF event_id \notin DOMAIN ev
    THEN [ok |-> FALSE, events |-> ev]
    ELSE [ok |-> TRUE,
          events |-> insert(ev, event_id, [ev[event_id] EXCEPT !.updated_at = Some(t)])]

remove_event_ticket(ev, event_id, ticket_id, t) ==
    IF event_id \notin DOMAIN ev
    THEN [ok |-> FALSE, events |-> ev]
    ELSE [ok |-> TRUE,
          events |-> insert(ev, event_id,
              [ev[event_id] EXCEPT !.ticket_ids = retain_ne(@, ticket_id),
                                   !.updated_at = Some(t)])]

\* ---- relation queries ---------------------------------------------------
\* Iterator::collect into Result: the first Err in list order wins
\* mutant: the last unresolved entry is reported instead of the first
FirstMissing_last(s, dom) ==
    LET bad == { i \in DOMAIN s : s[i] \notin dom }
    IN  IF bad = {} THEN 0 ELSE CHOOSE i \in bad : \A j \in bad : i >= j

FirstMissing(s, dom) ==
    LET bad == { i \in DOMAIN s : s[i] \notin dom }
    IN  IF bad = {} THEN 0 ELSE CHOOSE i \in bad : \A j \in bad : i <= j

get_event_attendees(ev, us, id) ==
    IF id \notin DOMAIN ev THEN NotFound("event", id)
    ELSE LET l == ev[id].attendee_ids
             m == FirstMissing(l, DOMAIN us)
         IN  IF m # 0 THEN NotFound("user", l[m])
             ELSE Ok([i \in DOMAIN l |-> us[l[i]]])

get_user_tickets(us, tk, id) ==
    IF id \notin DOMAIN us THEN NotFound("user", id)
    ELSE LET l == us[id].ticket_ids
             m == FirstMissing(l, DOMAIN tk)
         IN  IF m # 0 THEN NotFound("ticket", l[m])
             ELSE Ok([i \in DOMAIN l |-> tk[l[i]]])

get_event_tickets(ev, tk, id) ==
    IF id \notin DOMAIN ev THEN NotFound("event", id)
    ELSE LET l == ev[id].ticket_ids
             m == FirstMissing(l, DOMAIN tk)
         IN  IF m # 0 THEN NotFound("ticket", l[m])
             ELSE Ok([i \in DOMAIN l |-> tk[l[i]]])

\* ---- outcome of one update call ------------------------------------------
\* the result returned to the caller and the stores as the call leaves them
Out(res, c, ev, us, tk) ==
    [res |-> res, counter |-> c, events |-> ev, users |-> us, tickets |-> tk]

\* ---- Event ---------------------------------------------------------------
\* mutant: a failed allocation still uses up the id
create_event_run_burnt(c, ev, us, tk, payload, commit, t) ==
    LET r == increment_id_counter(c, commit)
        event == [id |-> r.id,
                  name |-> payload.name,
                  description |-> payload.description,
                  date |-> payload.date,
                  start_time |-> payload.start_time,
                  location |-> payload.location,
                  attendee_ids |-> <<>>,
                  ticket_ids |-> <<>>,
                  created_at |-> t,
                  updated_at |-> None]
    IN  IF ~r.ok
        THEN Out(NotCreated, c + 1, ev, us, tk)
        ELSE Out(Ok(<<event>>), r.counter, insert(ev, r.id, event), us, tk)

create_event_run(c, ev, us, tk, payload, commit, t) ==
    LET r == increment_id_counter(c, commit)
        event == [id |-> r.id,
                  name |-> payload.name,
                  description |-> payload.description,
                  date |-> payload.date,
                  start_time |-> payload.start_time,
                  location |-> payload.location,
                  attendee_ids |-> <<>>,
                  ticket_ids |-> <<>>,
                  created_at |-> t,
                  updated_at |-> None]
    IN  IF ~r.ok
        THEN Out(NotCreated, c, ev, us, tk)
        ELSE Out(Ok(<<event>>), r.counter, insert(ev, r.id, event), us, tk)

\* mutant: the record is rebuilt from the payload as at creation
update_event_run_rebuilt(c, ev, us, tk, id, payload, t) ==
    IF id \notin DOMAIN ev
    THEN Out(NotFound("event", id), c, ev, us, tk)
    ELSE LET event == [ev[id] EXCEPT !.name = payload.name,
                                     !.description = payload.description,
                                     !.date = payload.date,
                                     !.start_time = payload.start_time,
                                     !.location = payload.location,
                                     !.ticket_ids = <<>>,
                                     !.created_at = t,
                                     !.updated_at = Some(t)]
         IN  Out(Ok(<<event>>), c, insert(ev, id, event), us, tk)

update_event_run(c, ev, us, tk, id, payload, t) ==
    IF id \notin DOMAIN ev
    THEN Out(NotFound("event", id), c, ev, us, tk)
    ELSE LET event == [ev[id] EXCEPT !.name = payload.name,
                                     !.description = payload.description,
                                     !.date = payload.date,
                                     !.start_time = payload.start_time,
                                     !.location = payload.location,
                                     !.updated_at = Some(t)]
         IN  Out(Ok(<<event>>), c, insert(ev, id, event), us, tk)

\* mutant: deleting an event also drops the Ticket records that reference it
delete_event_run_cascade(c, ev, us, tk, id) ==
    IF id \notin DOMAIN ev
    THEN Out(NotFound("event", id), c, ev, us, tk)
    ELSE Out(Ok(<<>>), c, remove(ev, id), us,
             [x \in { y \in DOMAIN tk : tk[y].event_id # id } |-> tk[x]])

delete_event_run(c, ev, us, tk, id) ==
    IF id \notin DOMAIN ev
    THEN Out(NotFound("event", id), c, ev, us, tk)
    ELSE Out(Ok(<<>>), c, remove(ev, id), us, tk)

\* ---- User ----------------------------------------------------------------
create_user_run(c, ev, us, tk, payload, commit, t) ==
    LET r == increment_id_counter(c, commit)
        user == [id |-> r.id,
                 name |-> payload.name,
                 email |-> payload.email,
                 password |-> payload.password,
                 event_ids |-> <<>>,
                 ticket_ids |-> <<>>,
                 created_at |-> t,
                 updated_at |-> None]
    IN  IF ~r.ok
        THEN Out(NotCreated, c, ev, us, tk)
        ELSE Out(Ok(<<user>>), r.counter, ev, insert(us, r.id, user), tk)

update_user_run(c, ev, us, tk, id, payload, t) ==
    IF id \notin DOMAIN us
    THEN Out(NotFound("user", id), c, ev, us, tk)
    ELSE LET user == [us[id] EXCEPT !.name = payload.name,
                                    !.email = payload.email,
                                    !.password = payload.password,
                                    !.updated_at = Some(t)]
         IN  Out(Ok(<<user>>), c, ev, insert(us, id, user), tk)

\* mutant: success is reported but the record is not removed
delete_user_run_kept(c, ev, us, tk, id) ==
    IF id \notin DOMAIN us
    THEN Out(NotFound("user", id), c, ev, us, tk)
    ELSE Out(Ok(<<>>), c, ev, us, tk)

\* mutant: deleting a user also takes its id out of every attendee_ids
delete_user_run_scrubbed(c, ev, us, tk, id) ==
    IF id \notin DOMAIN us
    THEN Out(NotFound("user", id), c, ev, us, tk)
    ELSE Out(Ok(<<>>), c,
             [e \in DOMAIN ev |->
                 [ev[e] EXCEPT !.attendee_ids = retain_ne(@, id)]],
             remove(us, id), tk)

delete_user_run(c, ev, us, tk, id) ==
    IF id \notin DOMAIN us
    THEN Out(NotFound("user", id), c, ev, us, tk)
    ELSE Out(Ok(<<>>), c, ev, remove(us, id), tk)

\* ---- Ticket --------------------------------------------------------------
\* mutant: the Ticket record is stamped again after the link steps
create_ticket_run_restamped(c, ev, us, tk, payload, commit, t) ==
    LET r == increment_id_counter(c, commit)
        id == r.id
        ticket == [id |-> id,
                   event_id |-> payload.event_id,
                   user_id |-> payload.user_id,
                   created_at |-> t,
                   updated_at |-> None]
        tk1 == insert(tk, id, ticket)
        a == add_event_attendee(ev, payload.event_id, payload.user_id, t)
        b == add_user_ticket(us, payload.user_id, id, t)
        d == add_event_ticket(a.events, payload.event_id, id, t)
    IN  IF ~r.ok
        THEN Out(AssociationErr("increment_id_counter", TicketDefault), c, ev, us, tk)
        ELSE IF ~a.ok
        THEN Out(AssociationErr("add_event_attendee", ticket), r.counter, ev, us, tk1)
        ELSE IF ~b.ok
        THEN Out(AssociationErr("add_user_ticket", ticket), r.counter, a.events, us, tk1)
        ELSE IF ~d.ok
        THEN Out(AssociationErr("add_event_ticket", ticket), r.counter, a.events, b.users, tk1)
        ELSE Out(Ok(<<ticket>>), r.counter, d.events, b.users,
                 insert(tk, id, [ticket EXCEPT !.updated_at = Some(t)]))

\* mutant: a failed link step undoes the writes made before it
create_ticket_run_undone(c, ev, us, tk, payload, commit, t) ==
    LET r == increment_id_counter(c, commit)
        id == r.id
        ticket == [id |-> id,
                   event_id |-> payload.event_id,
                   user_id |-> payload.user_id,
                   created_at |-> t,
                   updated_at |-> None]
        tk1 == insert(tk, id, ticket)
        a == add_event_attendee(ev, payload.event_id, payload.user_id, t)
        b == add_user_ticket(us, payload.user_id, id, t)
        d == add_event_ticket(a.events, payload.event_id, id, t)
    IN  IF ~r.ok
        THEN Out(AssociationErr("increment_id_counter", TicketDefault), c, ev, us, tk)
        ELSE IF ~a.ok
        THEN Out(AssociationErr("add_event_attendee", ticket), r.counter, ev, us, tk)
        ELSE IF ~b.ok
        THEN Out(AssociationErr("add_user_ticket", ticket), r.counter, ev, us, tk)
        ELSE IF ~d.ok
        THEN Out(AssociationErr("add_event_ticket", ticket), r.counter, ev, us, tk)
        ELSE Out(Ok(<<ticket>>), r.counter, d.events, b.users, tk1)

create_ticket_run(c, ev, us, tk, payload, commit, t) ==
    LET r == increment_id_counter(c, commit)
        id == r.id
        ticket == [id |-> id,
                   event_id |-> payload.event_id,
                   user_id |-> payload.user_id,
                   created_at |-> t,
                   updated_at |-> None]
        tk1 == insert(tk, id, ticket)
        a == add_event_attendee(ev, payload.event_id, payload.user_id, t)
        b == add_user_ticket(us, payload.user_id, id, t)
        d == add_event_ticket(a.events, payload.event_id, id, t)
    IN  IF ~r.ok
        THEN Out(AssociationErr("increment_id_counter", TicketDefault), c, ev, us, tk)
        ELSE IF ~a.ok
        THEN Out(AssociationErr("add_event_attendee", ticket), r.counter, ev, us, tk1)
        ELSE IF ~b.ok
        THEN Out(AssociationErr("add_user_ticket", ticket), r.counter, a.events, us, tk1)
        ELSE IF ~d.ok
        THEN Out(AssociationErr("add_event_ticket", ticket), r.counter, a.events, b.users, tk1)
        ELSE Out(Ok(<<ticket>>), r.counter, d.events, b.users, tk1)

\* mutant: the new user_id is stored as soon as the user step has succeeded
update_ticket_run_eager(c, ev, us, tk, id, payload, t) ==
    IF id \notin DOMAIN tk
    THEN Out(NotFound("ticket", id), c, ev, us, tk)
    ELSE
    LET ticket == tk[id]
        chU == payload.user_id # ticket.user_id
        ru == remove_user_ticket(us, ticket.user_id, ticket.id, t)
        au == add_user_ticket(ru.users, payload.user_id, ticket.id, t)
        us1 == IF chU THEN au.users ELSE us
        ticket1 == IF chU THEN [ticket EXCEPT !.user_id = payload.user_id] ELSE ticket
        chE == payload.event_id # ticket1.event_id
        re == remove_event_ticket(ev, ticket1.event_id, ticket1.id, t)
        ae == add_event_ticket(re.events, payload.event_id, ticket1.id, t)
        ev1 == IF chE THEN ae.events ELSE ev
        ticket2 == IF chE THEN [ticket1 EXCEPT !.event_id = payload.event_id] ELSE ticket1
        ticket3 == [ticket2 EXCEPT !.updated_at = Some(t)]
    IN  IF chU /\ ~ru.ok
        THEN Out(NotFound("user", ticket.user_id), c, ev, us, tk)
        ELSE IF chU /\ ~au.ok
        THEN Out(NotFound("user", payload.user_id), c, ev, ru.users, tk)
        ELSE IF chE /\ ~re.ok
        THEN Out(NotFound("event", ticket1.event_id), c, ev, us1, insert(tk, id, ticket1))
        ELSE IF chE /\ ~ae.ok
        THEN Out(NotFound("event", payload.event_id), c, re.events, us1, insert(tk, id, ticket1))
        ELSE Out(Ok(<<ticket3>>), c, ev1, us1, insert(tk, id, ticket3))

update_ticket_run(c, ev, us, tk, id, payload, t) ==
    IF id \notin DOMAIN tk
    THEN Out(NotFound("ticket", id), c, ev, us, tk)
    ELSE
    LET ticket == tk[id]
        chU == payload.user_id # ticket.user_id
        ru == remove_user_ticket(us, ticket.user_id, ticket.id, t)
        au == add_user_ticket(ru.users, payload.user_id, ticket.id, t)
        us1 == IF chU THEN au.users ELSE us
        ticket1 == IF chU THEN [ticket EXCEPT !.user_id = payload.user_id] ELSE ticket
        chE == payload.event_id # ticket1.event_id
        re == remove_event_ticket(ev, ticket1.event_id, ticket1.id, t)
        ae == add_event_ticket(re.events, payload.event_id, ticket1.id, t)
        ev1 == IF chE THEN ae.events ELSE ev
        ticket2 == IF chE THEN [ticket1 EXCEPT !.event_id = payload.event_id] ELSE ticket1
        ticket3 == [ticket2 EXCEPT !.updated_at = Some(t)]
    IN  IF chU /\ ~ru.ok
        THEN Out(NotFound("user", ticket.user_id), c, ev, us, tk)
        ELSE IF chU /\ ~au.ok
        THEN Out(NotFound("user", payload.user_id), c, ev, ru.users, tk)
        ELSE IF chE /\ ~re.ok
        THEN Out(NotFound("event", ticket1.event_id), c, ev, us1, tk)
        ELSE IF chE /\ ~ae.ok
        THEN Out(NotFound("event", payload.event_id), c, re.events, us1, tk)
        ELSE Out(Ok(<<ticket3>>), c, ev1, us1, insert(tk, id, ticket3))

\* mutant: the Ticket record is removed before the lists are cleaned
delete_ticket_run_early(c, ev, us, tk, id, t) ==
    IF id \notin DOMAIN tk
    THEN Out(NotFound("ticket", id), c, ev, us, tk)
    ELSE
    LET ticket == tk[id]
        tk1 == remove(tk, id)
        ru == remove_user_ticket(us, ticket.user_id, ticket.id, t)
        re == remove_event_ticket(ev, ticket.event_id, ticket.id, t)
    IN  IF ~ru.ok
        THEN Out(NotFound("user", ticket.user_id), c, ev, us, tk1)
        ELSE IF ~re.ok
        THEN Out(NotFound("event", ticket.event_id), c, ev, ru.users, tk1)
        ELSE Out(Ok(<<>>), c, re.events, ru.users, tk1)

\* mutant: a failed event step puts the ticket id back into the user's list
delete_ticket_run_compensated(c, ev, us, tk, id, t) ==
    IF id \notin DOMAIN tk
    THEN Out(NotFound("ticket", id), c, ev, us, tk)
    ELSE
    LET ticket == tk[id]
        ru == remove_user_ticket(us, ticket.user_id, ticket.id, t)
        re == remove_event_ticket(ev, ticket.event_id, ticket.id, t)
    IN  IF ~ru.ok
        THEN Out(NotFound("user", ticket.user_id), c, ev, us, tk)
        ELSE IF ~re.ok
        THEN Out(NotFound("event", ticket.event_id), c, ev, us, tk)
        ELSE Out(Ok(<<>>), c, re.events, ru.users, remove(tk, id))

\* mutant: the record is removed without cleaning the lists
delete_ticket_run_record_only(c, ev, us, tk, id, t) ==
    IF id \notin DOMAIN tk
    THEN Out(NotFound("ticket", id), c, ev, us, tk)
    ELSE
    LET ticket == tk[id]
        ru == remove_user_ticket(us, ticket.user_id, ticket.id, t)
        re == remove_event_ticket(ev, ticket.event_id, ticket.id, t)
    IN  IF ~ru.ok
        THEN Out(NotFound("user", ticket.user_id), c, ev, us, tk)
        ELSE IF ~re.ok
        THEN Out(NotFound("event", ticket.event_id), c, ev, ru.users, tk)
        ELSE Out(Ok(<<>>), c, ev, us, remove(tk, id))

delete_ticket_run(c, ev, us, tk, id, t) ==
    IF id \notin DOMAIN tk
    THEN Out(NotFound("ticket", id), c, ev, us, tk)
    ELSE
    LET ticket == tk[id]
        ru == remove_user_ticket(us, ticket.user_id, ticket.id, t)
        re == remove_event_ticket(ev, ticket.event_id, ticket.id, t)
    IN  IF ~ru.ok
        THEN Out(NotFound("user", ticket.user_id), c, ev, us, tk)
        ELSE IF ~re.ok
        THEN Out(NotFound("event", ticket.event_id), c, ev, ru.users, tk)
        ELSE Out(Ok(<<>>), c, re.events, ru.users, remove(tk, id))

\* ---- the calls applied to the canister state ------------------------------
Time == IF now < MaxTime THEN now + 1 ELSE MaxTime

\* the call leaves the stores as in its outcome o; keep tells whether a
\* successful call of this kind leaves the history clean
Commit(o, keep) ==
    /\ counter' = o.counter
    /\ events' = o.events
    /\ users' = o.users
    /\ tickets' = o.tickets
    /\ clean' = (clean /\ keep /\ o.res.tag = "Ok")

create_event(payload, commit) ==
    /\ counter < MaxId
    /\ Commit(create_event_run(counter, events, users, tickets, payload, commit, Time), TRUE)
    /\ now' = Time

update_event(id, payload) ==
    /\ Commit(update_event_run(counter, events, users, tickets, id, payload, Time), TRUE)
    /\ now' = Time

delete_event(id) ==
    /\ Commit(delete_event_run(counter, events, users, tickets, id), FALSE)
    /\ now' = Time

create_user(payload, commit) ==
    /\ counter < MaxId
    /\ Commit(create_user_run(counter, events, users, tickets, payload, commit, Time), TRUE)
    /\ now' = Time

update_user(id, payload) ==
    /\ Commit(update_user_run(counter, events, users, tickets, id, payload, Time), TRUE)
    /\ now' = Time

delete_user(id) ==
    /\ Commit(delete_user_run(counter, events, users, tickets, id), FALSE)
    /\ now' = Time

create_ticket(payload, commit) ==
    /\ counter < MaxId
    /\ Commit(create_ticket_run(counter, events, users, tickets, payload, commit, Time), TRUE)
    /\ now' = Time

update_ticket(id, payload) ==
    /\ Commit(update_ticket_run(counter, events, users, tickets, id, payload, Time), TRUE)
    /\ now' = Time

delete_ticket(id) ==
    /\ Commit(delete_ticket_run(counter, events, users, tickets, id, Time), TRUE)
    /\ now' = Time

\* ---- specification -------------------------------------------------------
Init ==
    /\ counter = 0
    /\ events = <<>>
    /\ users = <<>>
    /\ tickets = <<>>
    /\ now = 0
    /\ clean = TRUE

\* Arguments of the calls.  An id that resolves in no store makes a call fail
\* in the same way whichever id it is, and a failed lookup stores nothing, so
\* the id arguments of update and delete calls range over the stored ids and
\* Unissued, an id the counter never gives out.  The calls are also made with
\* these ids in the payload of create_ticket; the claims about the calls range
\* over every id of AnyId in every reachable state.
Unissued == 0

EventArgs == DOMAIN events \cup {Unissued}
UserArgs == DOMAIN users \cup {Unissued}
TicketArgs == DOMAIN tickets \cup {Unissued}

\* payloads of update_ticket(id, _): stored ids, the ticket's own references
\* (a payload equal to them changes nothing), and Unissued
UpdatePayloads(id) ==
    LET own == IF id \in DOMAIN tickets
               THEN [e |-> {tickets[id].event_id}, u |-> {tickets[id].user_id}]
               ELSE [e |-> {}, u |-> {}]
    IN  [event_id : EventArgs \cup own.e, user_id : UserArgs \cup own.u]

\* payloads of create_ticket
CreatePayloads == [event_id : EventArgs, user_id : UserArgs]

\* Records are created with the text "a" and updated to the text "b"; the
\* claims about the calls range over both texts in every reachable state.
Next ==
    \/ \E commit \in BOOLEAN : create_event(EventPayload("a"), commit)
    \/ \E id \in EventArgs : update_event(id, EventPayload("b"))
    \/ \E id \in EventArgs : delete_event(id)
    \/ \E commit \in BOOLEAN : create_user(UserPayload("a"), commit)
    \/ \E id \in UserArgs : update_user(id, UserPayload("b"))
    \/ \E id \in UserArgs : delete_user(id)
    \/ \E p \in CreatePayloads, commit \in BOOLEAN : create_ticket(p, commit)
    \/ \E id \in TicketArgs : \E p \in UpdatePayloads(id) : update_ticket(id, p)
    \/ \E id \in TicketArgs : delete_ticket(id)

Spec == Init /\ [][Next]_vars

\* ---- the calls as seen from the current state -----------------------------
CreateEvent(p, commit) == create_event_run(counter, events, users, tickets, p, commit, Time)
CreateUser(p, commit) == create_user_run(counter, events, users, tickets, p, commit, Time)
CreateTicket(p, commit) == create_ticket_run(counter, events, users, tickets, p, commit, Time)
UpdateEvent(id, p) == update_event_run(counter, events, users, tickets, id, p, Time)
UpdateUser(id, p) == update_user_run(counter, events, users, tickets, id, p, Time)
UpdateTicket(id, p) == update_ticket_run(counter, events, users, tickets, id, p, Time)
DeleteEvent(id) == delete_event_run(counter, events, users, tickets, id)
DeleteUser(id) == delete_user_run(counter, events, users, tickets, id)
DeleteTicket(id) == delete_ticket_run(counter, events, users, tickets, id, Time)

\* the stores of outcome o are the current ones
Same(o) ==
    /\ o.counter = counter
    /\ o.events = events
    /\ o.users = users
    /\ o.tickets = tickets

\* ticket T is linked on all three sides in the stores ev, us, tk
Linked(ev, us, tk, T) ==
    /\ tk[T].event_id \in DOMAIN ev
    /\ tk[T].user_id \in DOMAIN us
    /\ contains(ev[tk[T].event_id].ticket_ids, T)
    /\ contains(us[tk[T].user_id].ticket_ids, T)
    /\ contains(ev[tk[T].event_id].attendee_ids, tk[T].user_id)

AllKeys == DOMAIN events \cup DOMAIN users \cup DOMAIN tickets

\* ---- claims ---------------------------------------------------------------

\* C1: in every state reached by calls that all returned success, none of them
\* delete_event or delete_user, every stored ticket t has t.id in its event's
\* ticket_ids and in its user's ticket_ids, and t.user_id in its event's
\* attendee_ids.
C1_TicketsLinked ==
    clean => \A T \in DOMAIN tickets : Linked(events, users, tickets, T)

\* the stored keys are ids the counter has given out, each to one record
C2_KeysIssued ==
    /\ AllKeys \subseteq 1..counter
    /\ DOMAIN events \cap DOMAIN users = {}
    /\ DOMAIN events \cap DOMAIN tickets = {}
    /\ DOMAIN users \cap DOMAIN tickets = {}
    /\ \A id \in DOMAIN events : events[id].id = id
    /\ \A id \in DOMAIN users : users[id].id = id
    /\ \A id \in DOMAIN tickets : tickets[id].id = id

\* a step stores at most one new key, the next id, and no key a second time
C2_NewIdIsNext ==
    /\ counter' \in {counter, counter + 1}
    /\ AllKeys' \ AllKeys \subseteq {counter + 1}
    /\ (counter' = counter + 1) <=> (AllKeys' \ AllKeys = {counter + 1})
    /\ \A id \in (1..counter) \ AllKeys : id \notin AllKeys'

\* C2: the ids given to newly stored records come from the one shared counter,
\* which starts at 0: a call stores at most one new record, under the id
\* counter + 1, which becomes the counter (so ids go 1, 2, ... in call order,
\* whatever the kind); every stored key lies in 1..counter, is the record's
\* id, and belongs to one store only, so no id is given twice, deleted or not.
C2_MonotonicIds == (counter = 0) /\ []C2_KeysIssued /\ [][C2_NewIdIsNext]_vars

C2_Witness ==
    /\ counter = MaxId
    /\ MaxId \in AllKeys
    /\ events # <<>> /\ users # <<>> /\ tickets # <<>>
    /\ \E id \in 1..counter : id \notin AllKeys

\* C3: whenever create_ticket({event_id: E, user_id: U}) returns Ok(ticket), the
\* resulting state has ticket.id in Event[E].ticket_ids and in
\* User[U].ticket_ids, and U in Event[E].attendee_ids.
C3_CreateTicketLinks ==
    \A p \in AnyTicketPayload, commit \in BOOLEAN :
        LET o == CreateTicket(p, commit)
        IN  o.res.tag = "Ok" =>
                /\ o.res.val[1].event_id = p.event_id
                /\ o.res.val[1].user_id = p.user_id
                /\ o.res.val[1].id \in DOMAIN o.tickets
                /\ Linked(o.events, o.users, o.tickets, o.res.val[1].id)

C3_Witness ==
    /\ counter < MaxId
    /\ \E p \in AnyTicketPayload : CreateTicket(p, TRUE).res.tag = "Ok"

\* C4: for a stored ticket T with user_id U1 and event_id E, a successful
\* update_ticket(T, {user_id: U2, event_id: E}) with U2 # U1 leaves T absent
\* from User[U1].ticket_ids and present in User[U2].ticket_ids, stores user_id
\* U2 in the ticket, and leaves the Event store unchanged.
C4_Reassign ==
    \A T \in DOMAIN tickets, U2 \in AnyId :
        LET U1 == tickets[T].user_id
            o == UpdateTicket(T, [event_id |-> tickets[T].event_id, user_id |-> U2])
        IN  (U2 # U1 /\ o.res.tag = "Ok") =>
                /\ U1 \in DOMAIN o.users
                /\ ~contains(o.users[U1].ticket_ids, T)
                /\ U2 \in DOMAIN o.users
                /\ contains(o.users[U2].ticket_ids, T)
                /\ o.tickets[T].user_id = U2
                /\ o.events = events

C4_Witness ==
    \E T \in DOMAIN tickets, U2 \in AnyId :
        LET U1 == tickets[T].user_id
            o == UpdateTicket(T, [event_id |-> tickets[T].event_id, user_id |-> U2])
        IN  /\ U2 # U1
            /\ o.res.tag = "Ok"
            /\ contains(users[U1].ticket_ids, T)
            /\ tickets[T].event_id \in DOMAIN events

\* C5: whenever delete_ticket(T) returns success for a stored ticket T with
\* event_id E and user_id U, the resulting state has T absent from
\* Event[E].ticket_ids and from User[U].ticket_ids, and no Ticket record T.
C5_DeleteTicketUnlinks ==
    \A T \in DOMAIN tickets :
        LET E == tickets[T].event_id
            U == tickets[T].user_id
            o == DeleteTicket(T)
        IN  o.res.tag = "Ok" =>
                /\ E \in DOMAIN o.events
                /\ ~contains(o.events[E].ticket_ids, T)
                /\ U \in DOMAIN o.users
                /\ ~contains(o.users[U].ticket_ids, T)
                /\ T \notin DOMAIN o.tickets

C5_Witness ==
    \E T \in DOMAIN tickets :
        /\ DeleteTicket(T).res.tag = "Ok"
        /\ contains(events[tickets[T].event_id].ticket_ids, T)
        /\ contains(users[tickets[T].user_id].ticket_ids, T)

\* the scenario of C6: only successful calls so far, no event or user deleted,
\* and ticket T of event E and user U is in U's ticket_ids
C6_Scenario(T) ==
    /\ clean
    /\ tickets[T].event_id \in DOMAIN events
    /\ tickets[T].user_id \in DOMAIN users
    /\ contains(users[tickets[T].user_id].ticket_ids, T)

\* C6 (as claimed): after create_event gives E, create_user gives U,
\* create_ticket({E, U}) succeeds and delete_event(E) succeeds, a following
\* get_user_tickets(U) returns a NotFound error naming E.
C6_DanglingEventNotFound ==
    \A T \in DOMAIN tickets :
        C6_Scenario(T) =>
            LET E == tickets[T].event_id
                o == DeleteEvent(E)
                r == get_user_tickets(o.users, o.tickets, tickets[T].user_id)
            IN  o.res.tag = "Ok" => (r.tag = "NotFound" /\ r.eid = E)

\* C6 (amended): in that scenario the following get_user_tickets(U) returns Ok,
\* the same list as before delete_event(E), which holds the ticket that still
\* references the deleted E.
C6_DanglingEventStillListed ==
    \A T \in DOMAIN tickets :
        C6_Scenario(T) =>
            LET E == tickets[T].event_id
                U == tickets[T].user_id
                o == DeleteEvent(E)
                r == get_user_tickets(o.users, o.tickets, U)
            IN  /\ o.res.tag = "Ok"
                /\ E \notin DOMAIN o.events
                /\ r.tag = "Ok"
                /\ contains(r.val, tickets[T])
                /\ r = get_user_tickets(users, tickets, U)

C6_Witness ==
    \E T \in DOMAIN tickets :
        /\ C6_Scenario(T)
        /\ DeleteEvent(tickets[T].event_id).res.tag = "Ok"
        /\ get_user_tickets(users, tickets, tickets[T].user_id).val = <<tickets[T]>>

\* the NotFound outcomes of the single-record calls leave everything as it was
C7_SimpleNotFound ==
    /\ \A id \in AnyId, p \in EventPayloads :
           UpdateEvent(id, p).res.tag = "NotFound" => Same(UpdateEvent(id, p))
    /\ \A id \in AnyId :
           DeleteEvent(id).res.tag = "NotFound" => Same(DeleteEvent(id))
    /\ \A id \in AnyId, p \in UserPayloads :
           UpdateUser(id, p).res.tag = "NotFound" => Same(UpdateUser(id, p))
    /\ \A id \in AnyId :
           DeleteUser(id).res.tag = "NotFound" => Same(DeleteUser(id))

\* C7 (as claimed): every mutating call that returns NotFound leaves the three
\* stores and the id counter identical to what they were before the call.
C7_NotFoundChangesNothing ==
    /\ C7_SimpleNotFound
    /\ \A id \in AnyId, p \in AnyTicketPayload :
           UpdateTicket(id, p).res.tag = "NotFound" => Same(UpdateTicket(id, p))
    /\ \A id \in AnyId :
           DeleteTicket(id).res.tag = "NotFound" => Same(DeleteTicket(id))

\* outcome o differs from the current state at most in the ticket_ids and
\* updated_at of Event and User records
C7_OnlyListsTouched(o) ==
    /\ o.counter = counter
    /\ o.tickets = tickets
    /\ DOMAIN o.events = DOMAIN events
    /\ DOMAIN o.users = DOMAIN users
    /\ \A e \in DOMAIN events :
           [o.events[e] EXCEPT !.ticket_ids = <<>>, !.updated_at = None]
               = [events[e] EXCEPT !.ticket_ids = <<>>, !.updated_at = None]
    /\ \A u \in DOMAIN users :
           [o.users[u] EXCEPT !.ticket_ids = <<>>, !.updated_at = None]
               = [users[u] EXCEPT !.ticket_ids = <<>>, !.updated_at = None]

\* C7 (amended): update_event, delete_event, update_user and delete_user
\* returning NotFound leave the stores and the counter identical; update_ticket
\* and delete_ticket returning NotFound leave the counter and the Ticket store
\* identical, and everything identical when the NotFound names the ticket
\* itself, but a NotFound naming a user or an event may leave the ticket_ids
\* and updated_at written by the relationship steps that ran before it.
C7_NotFoundKeepsRecords ==
    /\ C7_SimpleNotFound
    /\ \A id \in AnyId, p \in AnyTicketPayload :
           LET o == UpdateTicket(id, p)
           IN  o.res.tag = "NotFound" =>
                   /\ C7_OnlyListsTouched(o)
                   /\ o.res.kind = "ticket" => Same(o)
    /\ \A id \in AnyId :
           LET o == DeleteTicket(id)
           IN  o.res.tag = "NotFound" =>
                   /\ C7_OnlyListsTouched(o)
                   /\ o.res.kind = "ticket" => Same(o)

C7_Witness ==
    /\ \E T \in DOMAIN tickets, p \in AnyTicketPayload :
           /\ UpdateTicket(T, p).res.tag = "NotFound"
           /\ UpdateTicket(T, p).users # users
    /\ \E T \in DOMAIN tickets :
           /\ DeleteTicket(T).res.tag = "NotFound"
           /\ DeleteTicket(T).users # users
    /\ \E id \in AnyId : DeleteEvent(id).res.tag = "NotFound"

\* C8: whenever create_ticket returns an AssociationError carrying ticket t,
\* the Ticket store holds under key t.id a record equal to t, and the failure
\* came from a relationship-link step, never from a failed id allocation.
C8_AssociationErrorCarriesStored ==
    \A p \in AnyTicketPayload, commit \in BOOLEAN :
        LET o == CreateTicket(p, commit)
            t == o.res.val[1]
        IN  o.res.tag = "AssociationError" =>
                /\ t.id \in DOMAIN o.tickets
                /\ o.tickets[t.id] = t
                /\ o.res.step \in LinkSteps

\* a successful delete followed by get and by a second delete of the same id
C9_DeleteThenGet ==
    /\ \A id \in DOMAIN events :
           LET o == DeleteEvent(id)
               o2 == delete_event_run(o.counter, o.events, o.users, o.tickets, id)
           IN  o.res.tag = "Ok" =>
                   /\ get_event(o.events, id) = NotFound("event", id)
                   /\ o2 = [o EXCEPT !.res = NotFound("event", id)]
    /\ \A id \in DOMAIN users :
           LET o == DeleteUser(id)
               o2 == delete_user_run(o.counter, o.events, o.users, o.tickets, id)
           IN  o.res.tag = "Ok" =>
                   /\ get_user(o.users, id) = NotFound("user", id)
                   /\ o2 = [o EXCEPT !.res = NotFound("user", id)]
    /\ \A id \in DOMAIN tickets :
           LET o == DeleteTicket(id)
               o2 == delete_ticket_run(o.counter, o.events, o.users, o.tickets, id, Time)
           IN  o.res.tag = "Ok" =>
                   /\ get_ticket(o.tickets, id) = NotFound("ticket", id)
                   /\ o2 = [o EXCEPT !.res = NotFound("ticket", id)]

\* an id that was given out and is not stored is stored by no later call
C9_GoneStaysGone ==
    \A id \in 1..counter :
        /\ id \notin DOMAIN events => id \notin DOMAIN events'
        /\ id \notin DOMAIN users => id \notin DOMAIN users'
        /\ id \notin DOMAIN tickets => id \notin DOMAIN tickets'

\* C9: for each kind, after delete(id) returns success, get(id) returns
\* NotFound and a second delete(id) returns NotFound and changes nothing; this
\* stays true after any later calls, since the id is never assigned again.
C9_DeleteIsFinal == []C9_DeleteThenGet /\ [][C9_GoneStaysGone]_vars

C9_Witness ==
    /\ clean
    /\ \E id \in (1..counter) \ AllKeys : id < counter
    /\ \E id \in DOMAIN events : DeleteEvent(id).res.tag = "Ok"
    /\ \E id \in DOMAIN users : DeleteUser(id).res.tag = "Ok"

\* C10: when create_event, create_user or create_ticket returns Ok(r), a get of
\* the same kind on r.id in the resulting state returns a record equal to r in
\* every field; the link steps of create_ticket do not alter the stored Ticket.
C10_CreateThenGet ==
    /\ \A p \in EventPayloads, commit \in BOOLEAN :
           LET o == CreateEvent(p, commit)
           IN  o.res.tag = "Ok" => get_event(o.events, o.res.val[1].id) = o.res
    /\ \A p \in UserPayloads, commit \in BOOLEAN :
           LET o == CreateUser(p, commit)
           IN  o.res.tag = "Ok" => get_user(o.users, o.res.val[1].id) = o.res
    /\ \A p \in AnyTicketPayload, commit \in BOOLEAN :
           LET o == CreateTicket(p, commit)
           IN  o.res.tag = "Ok" => get_ticket(o.tickets, o.res.val[1].id) = o.res

C10_Witness ==
    /\ \E p \in EventPayloads : CreateEvent(p, TRUE).res.tag = "Ok"
    /\ \E p \in UserPayloads : CreateUser(p, TRUE).res.tag = "Ok"
    /\ \E p \in AnyTicketPayload :
           /\ CreateTicket(p, TRUE).res.tag = "Ok"
           /\ CreateTicket(p, TRUE).events # events
           /\ CreateTicket(p, TRUE).users # users

\* the record r after a successful update at the clock value Time: updated_at
\* is Time, which is not before the previous updated_at or created_at
C11_Stamped(old, r) ==
    /\ r.updated_at = Some(Time)
    /\ Time >= old.created_at
    /\ old.updated_at # None => Time >= old.updated_at[1]
    /\ r.id = old.id
    /\ r.created_at = old.created_at
    /\ r.ticket_ids = old.ticket_ids

\* C11: a successful update_event(id, p) or update_user(id, p) overwrites
\* exactly the payload fields of that one record and sets updated_at to the
\* current clock value, which is >= the record's previous updated_at and its
\* created_at; the record's id, created_at, attendee_ids, ticket_ids and
\* event_ids, every other record, the other two stores and the counter are
\* unchanged.
C11_UpdateFrame ==
    /\ \A id \in AnyId, p \in EventPayloads :
           LET o == UpdateEvent(id, p)
           IN  o.res.tag = "Ok" =>
                   LET r == o.events[id]
                   IN  /\ id \in DOMAIN events
                       /\ o.res.val = <<r>>
                       /\ EventPayload(r.name) = p
                       /\ r.description = p.description /\ r.date = p.date
                       /\ r.start_time = p.start_time /\ r.location = p.location
                       /\ C11_Stamped(events[id], r)
                       /\ r.attendee_ids = events[id].attendee_ids
                       /\ DOMAIN o.events = DOMAIN events
                       /\ \A e \in DOMAIN events \ {id} : o.events[e] = events[e]
                       /\ o.users = users /\ o.tickets = tickets
                       /\ o.counter = counter
    /\ \A id \in AnyId, p \in UserPayloads :
           LET o == UpdateUser(id, p)
           IN  o.res.tag = "Ok" =>
                   LET r == o.users[id]
                   IN  /\ id \in DOMAIN users
                       /\ o.res.val = <<r>>
                       /\ r.name = p.name /\ r.email = p.email
                       /\ r.password = p.password
                       /\ C11_Stamped(users[id], r)
                       /\ r.event_ids = users[id].event_ids
                       /\ DOMAIN o.users = DOMAIN users
                       /\ \A u \in DOMAIN users \ {id} : o.users[u] = users[u]
                       /\ o.events = events /\ o.tickets = tickets
                       /\ o.counter = counter

\* an event and a user that hold links and were stamped before are updated,
\* the event at a later clock value than its creation and next to another event
C11_Witness ==
    /\ \E id \in DOMAIN events, e2 \in DOMAIN events :
           /\ e2 # id
           /\ events[id].ticket_ids # <<>> /\ events[id].attendee_ids # <<>>
           /\ events[id].updated_at # None
           /\ events[id].created_at < Time
           /\ UpdateEvent(id, EventPayload("b")).res.tag = "Ok"
           /\ events[id].name = "a"
    /\ \E id \in DOMAIN users :
           /\ users[id].ticket_ids # <<>>
           /\ users[id].updated_at # None
           /\ UpdateUser(id, UserPayload("b")).res.tag = "Ok"
           /\ users[id].name = "a"

\* no entry of the list s occurs twice
C12_NoDup(s) == \A i \in DOMAIN s, j \in DOMAIN s : s[i] = s[j] => i = j

\* r1 is the outcome of an add on the store m, with the store m1, and r2 the
\* outcome of the same add applied to m1: an add of a present id changes
\* nothing, a second add neither
C12_Idempotent(m, r1, r2, m1, present) ==
    /\ present => (r1.ok /\ m1 = m)
    /\ r2 = r1

\* C12: in every reachable state no Event's attendee_ids, no Event's ticket_ids
\* and no User's ticket_ids contains the same id twice; add_event_attendee,
\* add_event_ticket and add_user_ticket applied with an id already present
\* leave the record, including its updated_at, unchanged, so applying an add
\* twice (the second time at any clock value) gives the same state as
\* applying it once.
C12_Dedup ==
    /\ \A e \in DOMAIN events :
           C12_NoDup(events[e].attendee_ids) /\ C12_NoDup(events[e].ticket_ids)
    /\ \A u \in DOMAIN users : C12_NoDup(users[u].ticket_ids)
    /\ \A k \in AnyId, x \in AnyId, t2 \in 0..MaxTime :
           /\ LET r1 == add_event_attendee(events, k, x, Time)
                  r2 == add_event_attendee(r1.events, k, x, t2)
              IN  C12_Idempotent(events, r1, r2, r1.events,
                      k \in DOMAIN events /\ contains(events[k].attendee_ids, x))
           /\ LET r1 == add_event_ticket(events, k, x, Time)
                  r2 == add_event_ticket(r1.events, k, x, t2)
              IN  C12_Idempotent(events, r1, r2, r1.events,
                      k \in DOMAIN events /\ contains(events[k].ticket_ids, x))
           /\ LET r1 == add_user_ticket(users, k, x, Time)
                  r2 == add_user_ticket(r1.users, k, x, t2)
              IN  C12_Idempotent(users, r1, r2, r1.users,
                      k \in DOMAIN users /\ contains(users[k].ticket_ids, x))

\* two tickets of the same user for the same event are stored: the second
\* create_ticket applied add_event_attendee with the user already present
C12_Witness ==
    \E T1 \in DOMAIN tickets, T2 \in DOMAIN tickets :
        /\ T1 # T2
        /\ tickets[T1].event_id = tickets[T2].event_id
        /\ tickets[T1].user_id = tickets[T2].user_id
        /\ tickets[T1].event_id \in DOMAIN events
        /\ tickets[T1].user_id \in DOMAIN users
        /\ events[tickets[T1].event_id].attendee_ids = <<tickets[T1].user_id>>
        /\ events[tickets[T1].event_id].ticket_ids = <<T1, T2>>
        /\ users[tickets[T1].user_id].ticket_ids = <<T1, T2>>

\* r is what a relation query must return for the base id, looked up in the
\* store base, whose list l (of base[id]) is resolved in the store m of the
\* given kind; kinds name the stores in the NotFound results
C13_Resolves(r, id, base, basekind, l, m, kind) ==
    IF id \notin DOMAIN base
    THEN r = NotFound(basekind, id)
    ELSE IF \A i \in DOMAIN l : l[i] \in DOMAIN m
    THEN /\ r.tag = "Ok"
         /\ Len(r.val) = Len(l)
         /\ \A i \in DOMAIN l : r.val[i] = m[l[i]] /\ r.val[i].id = l[i]
    ELSE \E i \in DOMAIN l :
             /\ l[i] \notin DOMAIN m
             /\ \A j \in 1..(i - 1) : l[j] \in DOMAIN m
             /\ r = NotFound(kind, l[i])

\* C13: get_event_attendees(id), get_event_tickets(id) and
\* get_user_tickets(id) return Ok exactly when the base record exists and
\* every id in the relevant list resolves in the User / Ticket store, and
\* then return the resolved records in list order; otherwise they return
\* NotFound naming the base id when the base record is missing, or else the
\* first list entry that does not resolve.  The queries are functions of the
\* stores: they have no outcome that could differ from the state read.
C13_RelationQueries ==
    \A id \in AnyId :
        /\ C13_Resolves(get_event_attendees(events, users, id), id, events, "event",
               IF id \in DOMAIN events THEN events[id].attendee_ids ELSE <<>>,
               users, "user")
        /\ C13_Resolves(get_event_tickets(events, tickets, id), id, events, "event",
               IF id \in DOMAIN events THEN events[id].ticket_ids ELSE <<>>,
               tickets, "ticket")
        /\ C13_Resolves(get_user_tickets(users, tickets, id), id, users, "user",
               IF id \in DOMAIN users THEN users[id].ticket_ids ELSE <<>>,
               tickets, "ticket")

\* an event lists two attendees that do not resolve, and a ticket that does
C13_Witness ==
    \E e \in DOMAIN events :
        /\ Len(events[e].attendee_ids) = 2
        /\ \A i \in 1..2 : events[e].attendee_ids[i] \notin DOMAIN users
        /\ get_event_attendees(events, users, e).tag = "NotFound"
        /\ get_event_tickets(events, tickets, e).tag = "Ok"
        /\ get_event_tickets(events, tickets, e).val # <<>>

\* the Ticket record create_ticket(p) builds in the current state
C14_Ticket(p) ==
    [id |-> counter + 1, event_id |-> p.event_id, user_id |-> p.user_id,
     created_at |-> Time, updated_at |-> None]

\* create_ticket(p) with a missing event: the first link step fails, and only
\* the Ticket record has been added
C14_NoEvent(p, o) ==
    /\ o.res = AssociationErr("add_event_attendee", C14_Ticket(p))
    /\ o.tickets = insert(tickets, counter + 1, C14_Ticket(p))
    /\ o.events = events
    /\ o.users = users
    /\ o.counter = counter + 1

\* create_ticket(p) with a stored event and a missing user, apart from the
\* event's attendee_ids: the second link step fails with the Ticket record
\* added, and the new id is not in the event's ticket_ids
C14_NoUser(p, o) ==
    /\ o.res = AssociationErr("add_user_ticket", C14_Ticket(p))
    /\ o.tickets = insert(tickets, counter + 1, C14_Ticket(p))
    /\ o.users = users
    /\ o.counter = counter + 1
    /\ DOMAIN o.events = DOMAIN events
    /\ \A e \in DOMAIN events \ {p.event_id} : o.events[e] = events[e]
    /\ o.events[p.event_id].ticket_ids = events[p.event_id].ticket_ids
    /\ ~contains(o.events[p.event_id].ticket_ids, counter + 1)

\* C14 (as claimed): create_ticket({event_id: E, user_id: U}) commits in the
\* order ticket record, attendee link, user-ticket link, event-ticket link and
\* stops at the first failing step with no rollback: if E does not exist, the
\* result is AssociationError with only the Ticket record added; if E exists
\* and U does not, the result is AssociationError with the Ticket record added
\* and U appended to Event[E].attendee_ids, while the new ticket id is not in
\* Event[E].ticket_ids.
C14_PartialCreateAppends ==
    \A p \in AnyTicketPayload :
        LET o == CreateTicket(p, TRUE)
        IN  /\ p.event_id \notin DOMAIN events => C14_NoEvent(p, o)
            /\ (p.event_id \in DOMAIN events /\ p.user_id \notin DOMAIN users) =>
                   /\ C14_NoUser(p, o)
                   /\ o.events[p.event_id].attendee_ids
                          = Append(events[p.event_id].attendee_ids, p.user_id)

\* C14 (amended): as claimed, except that when E exists and U does not, U is
\* in Event[E].attendee_ids afterwards: appended, with updated_at set, if it
\* was absent, and the Event store unchanged if U was already listed there.
C14_PartialCreate ==
    \A p \in AnyTicketPayload :
        LET o == CreateTicket(p, TRUE)
        IN  /\ p.event_id \notin DOMAIN events => C14_NoEvent(p, o)
            /\ (p.event_id \in DOMAIN events /\ p.user_id \notin DOMAIN users) =>
                   /\ C14_NoUser(p, o)
                   /\ contains(o.events[p.event_id].attendee_ids, p.user_id)
                   /\ IF contains(events[p.event_id].attendee_ids, p.user_id)
                      THEN o.events = events
                      ELSE o.events[p.event_id] =
                               [events[p.event_id] EXCEPT
                                    !.attendee_ids = Append(@, p.user_id),
                                    !.updated_at = Some(Time)]

\* create_ticket can fail at the first step, at the second step with the
\* missing user appended, and at the second step with the missing user
\* already listed as an attendee of the event
C14_Witness ==
    /\ counter < MaxId
    /\ \E p \in AnyTicketPayload :
           /\ p.event_id \notin DOMAIN events /\ p.user_id \in DOMAIN users
           /\ CreateTicket(p, TRUE).res.tag = "AssociationError"
    /\ \E p \in AnyTicketPayload :
           /\ p.event_id \in DOMAIN events /\ p.user_id \notin DOMAIN users
           /\ ~contains(events[p.event_id].attendee_ids, p.user_id)
           /\ CreateTicket(p, TRUE).events # events
    /\ \E p \in AnyTicketPayload :
           /\ p.event_id \in DOMAIN events /\ p.user_id \notin DOMAIN users
           /\ contains(events[p.event_id].attendee_ids, p.user_id)
           /\ CreateTicket(p, TRUE).res.tag = "AssociationError"

\* C15: delete_ticket(T) on a stored ticket whose referenced User or Event
\* record does not exist returns NotFound and leaves the Ticket record T in
\* the Ticket store; when the User exists but the Event does not, T has
\* already been removed from User[t.user_id].ticket_ids (which is stamped),
\* and that removal stays in the resulting state.
C15_StuckDelete ==
    \A T \in DOMAIN tickets :
        LET U == tickets[T].user_id
            E == tickets[T].event_id
            o == DeleteTicket(T)
        IN  /\ (U \notin DOMAIN users \/ E \notin DOMAIN events) =>
                   /\ o.res.tag = "NotFound"
                   /\ o.tickets = tickets
                   /\ o.events = events
                   /\ o.counter = counter
            /\ U \notin DOMAIN users => (o.res = NotFound("user", U) /\ Same(o))
            /\ (U \in DOMAIN users /\ E \notin DOMAIN events) =>
                   /\ o.res = NotFound("event", E)
                   /\ DOMAIN o.users = DOMAIN users
                   /\ ~contains(o.users[U].ticket_ids, T)
                   /\ o.users[U] = [users[U] EXCEPT
                                        !.ticket_ids = retain_ne(@, T),
                                        !.updated_at = Some(Time)]
                   /\ \A u \in DOMAIN users \ {U} : o.users[u] = users[u]

\* a ticket listed by its user whose event was deleted, and a ticket whose
\* user is missing
C15_Witness ==
    /\ \E T \in DOMAIN tickets :
           /\ tickets[T].user_id \in DOMAIN users
           /\ tickets[T].event_id \in 1..counter
           /\ tickets[T].event_id \notin DOMAIN events
           /\ contains(users[tickets[T].user_id].ticket_ids, T)
           /\ DeleteTicket(T).res.tag = "NotFound"
    /\ \E T \in DOMAIN tickets :
           /\ tickets[T].user_id \notin DOMAIN users
           /\ DeleteTicket(T).res.tag = "NotFound"

\* C16: when update_ticket(T, p) on a stored ticket returns an error (a
\* relationship step failed), the stored Ticket record T is unchanged in every
\* field, since the record is written only after all relationship steps; the
\* list changes of the steps before the failing one stay: T is gone from the
\* old user's ticket_ids once the new user was looked up, T is in the new
\* user's ticket_ids once the event steps run, and T is gone from the old
\* event's ticket_ids when the new event is missing.
C16_FailedUpdateKeepsTicket ==
    \A T \in DOMAIN tickets, p \in AnyTicketPayload :
        LET o == UpdateTicket(T, p)
            U1 == tickets[T].user_id
            E1 == tickets[T].event_id
            chU == p.user_id # U1
            step == <<o.res.kind, o.res.eid>>
        IN  o.res.tag # "Ok" =>
            /\ o.res.tag = "NotFound"
            /\ o.tickets = tickets
            /\ o.counter = counter
            /\ DOMAIN o.users = DOMAIN users /\ DOMAIN o.events = DOMAIN events
            /\ \/ /\ step = <<"user", U1>> /\ chU /\ U1 \notin DOMAIN users
                  /\ Same(o)
               \/ /\ step = <<"user", p.user_id>> /\ chU /\ p.user_id \notin DOMAIN users
                  /\ o.users = remove_user_ticket(users, U1, T, Time).users
                  /\ ~contains(o.users[U1].ticket_ids, T)
                  /\ o.events = events
               \/ /\ o.res.kind = "event"
                  /\ IF chU
                     THEN /\ ~contains(o.users[U1].ticket_ids, T)
                          /\ contains(o.users[p.user_id].ticket_ids, T)
                          /\ \A u \in DOMAIN users \ {U1, p.user_id} :
                                 o.users[u] = users[u]
                     ELSE o.users = users
                  /\ p.event_id # E1
                  /\ \/ /\ o.res.eid = E1 /\ E1 \notin DOMAIN events
                        /\ o.events = events
                     \/ /\ o.res.eid = p.event_id /\ p.event_id \notin DOMAIN events
                        /\ o.events = remove_event_ticket(events, E1, T, Time).events
                        /\ ~contains(o.events[E1].ticket_ids, T)

\* a linked ticket for which one update fails at the new user, and another
\* fails at the new event after the ticket id has moved to another user
C16_Witness ==
    \E T \in DOMAIN tickets :
        /\ Linked(events, users, tickets, T)
        /\ \E p \in AnyTicketPayload :
               /\ UpdateTicket(T, p).res = NotFound("user", p.user_id)
               /\ UpdateTicket(T, p).users # users
        /\ \E p \in AnyTicketPayload :
               /\ UpdateTicket(T, p).res = NotFound("event", p.event_id)
               /\ p.user_id # tickets[T].user_id
               /\ contains(UpdateTicket(T, p).users[p.user_id].ticket_ids, T)
               /\ UpdateTicket(T, p).events # events

\* C17: a successful delete_event(id) or delete_user(id) removes exactly the
\* one record with that id from its own store and leaves the Ticket store, the
\* other record store, every other record and the id counter unchanged, so
\* the tickets referencing the deleted record, and the deleted user's id
\* inside events' attendee_ids, remain in place.
C17_DeleteFrame ==
    /\ \A id \in AnyId :
           LET o == DeleteEvent(id)
           IN  o.res.tag = "Ok" =>
                   /\ id \in DOMAIN events
                   /\ DOMAIN o.events = DOMAIN events \ {id}
                   /\ \A e \in DOMAIN o.events : o.events[e] = events[e]
                   /\ o.users = users /\ o.tickets = tickets
                   /\ o.counter = counter
                   /\ \A T \in DOMAIN tickets :
                          tickets[T].event_id = id =>
                              (T \in DOMAIN o.tickets /\ o.tickets[T].event_id = id)
    /\ \A id \in AnyId :
           LET o == DeleteUser(id)
           IN  o.res.tag = "Ok" =>
                   /\ id \in DOMAIN users
                   /\ DOMAIN o.users = DOMAIN users \ {id}
                   /\ \A u \in DOMAIN o.users : o.users[u] = users[u]
                   /\ o.events = events /\ o.tickets = tickets
                   /\ o.counter = counter
                   /\ \A T \in DOMAIN tickets :
                          tickets[T].user_id = id =>
                              (T \in DOMAIN o.tickets /\ o.tickets[T].user_id = id)
                   /\ \A e \in DOMAIN events :
                          contains(events[e].attendee_ids, id) =>
                              contains(o.events[e].attendee_ids, id)

\* an event and a user that a stored ticket references, the user listed as an
\* attendee, can be deleted next to another event
C17_Witness ==
    \E T \in DOMAIN tickets :
        /\ Linked(events, users, tickets, T)
        /\ DeleteEvent(tickets[T].event_id).res.tag = "Ok"
        /\ DeleteUser(tickets[T].user_id).res.tag = "Ok"
        /\ DOMAIN events # {tickets[T].event_id}

\* outcome o of a create whose id allocation failed: nothing is written, and
\* the allocation after it gives the id the failed call would have got
C18_NothingIssued(o) ==
    /\ Same(o)
    /\ counter + 1 \notin DOMAIN o.events \cup DOMAIN o.users \cup DOMAIN o.tickets
    /\ increment_id_counter(o.counter, TRUE).id = counter + 1

\* C18: when the id counter cannot be committed, create_event and create_user
\* return NotCreated and create_ticket returns an error, and in each case the
\* three record stores and the counter value are unchanged (no record is
\* stored under the unissued id); the next successful allocation returns the
\* value that the failed call would have issued.
C18_FailedAllocation ==
    /\ increment_id_counter(counter, FALSE).ok = FALSE
    /\ increment_id_counter(counter, FALSE).counter = counter
    /\ \A p \in EventPayloads :
           LET o == CreateEvent(p, FALSE)
               n == create_event_run(o.counter, o.events, o.users, o.tickets, p, TRUE, Time)
           IN  /\ o.res = NotCreated
               /\ C18_NothingIssued(o)
               /\ n.res.tag = "Ok" /\ n.res.val[1].id = counter + 1
               /\ n = CreateEvent(p, TRUE)
    /\ \A p \in UserPayloads :
           LET o == CreateUser(p, FALSE)
               n == create_user_run(o.counter, o.events, o.users, o.tickets, p, TRUE, Time)
           IN  /\ o.res = NotCreated
               /\ C18_NothingIssued(o)
               /\ n.res.tag = "Ok" /\ n.res.val[1].id = counter + 1
               /\ n = CreateUser(p, TRUE)
    /\ \A p \in AnyTicketPayload :
           LET o == CreateTicket(p, FALSE)
               n == create_ticket_run(o.counter, o.events, o.users, o.tickets, p, TRUE, Time)
           IN  /\ o.res = AssociationErr("increment_id_counter", TicketDefault)
               /\ C18_NothingIssued(o)
               /\ n.res.val[1].id = counter + 1
               /\ n = CreateTicket(p, TRUE)

\* ids were issued, records of each kind are stored under all of them and
\* some earlier call failed, when an allocation fails
C18_Witness ==
    /\ counter \in 1..(MaxId - 1)
    /\ events # <<>> /\ users # <<>> /\ tickets # <<>>
    /\ CreateEvent(EventPayload("a"), FALSE).res = NotCreated
    /\ CreateTicket([event_id |-> 1, user_id |-> 2], FALSE).res.tag = "AssociationError"
    /\ ~clean
    /\ \A id \in 1..counter : id \in AllKeys

\* ticket T references a user / an event id that the counter has given out
\* and that is not stored: every id given out was stored, so the record
\* under that id was deleted
C19_UserGone(T) == tickets[T].user_id \in (1..counter) \ DOMAIN users

C19_EventGone(T) == tickets[T].event_id \in (1..counter) \ DOMAIN events

\* a successful delete_user / delete_event on the reference of a stored ticket
\* leaves it dangling; a ticket with a dangling reference cannot be deleted,
\* and an update that would change the dangling reference fails
C19_Stuck ==
    \A T \in DOMAIN tickets :
        LET U == tickets[T].user_id
            E == tickets[T].event_id
        IN  /\ DeleteUser(U).res.tag = "Ok" =>
                   U \in (1..DeleteUser(U).counter) \ DOMAIN DeleteUser(U).users
            /\ DeleteEvent(E).res.tag = "Ok" =>
                   E \in (1..DeleteEvent(E).counter) \ DOMAIN DeleteEvent(E).events
            /\ (C19_UserGone(T) \/ C19_EventGone(T)) =>
                   /\ DeleteTicket(T).res.tag = "NotFound"
                   /\ DeleteTicket(T).tickets = tickets
            /\ \A p \in AnyTicketPayload :
                   \/ C19_UserGone(T) /\ p.user_id # U
                   \/ C19_EventGone(T) /\ p.event_id # E
                   => /\ UpdateTicket(T, p).res.tag = "NotFound"
                      /\ UpdateTicket(T, p).tickets = tickets

\* no step removes a ticket with a dangling reference, changes the dangling
\* field, or stores a record under the deleted id again
C19_StaysDangling ==
    \A T \in DOMAIN tickets :
        /\ C19_UserGone(T) =>
               /\ T \in DOMAIN tickets'
               /\ tickets'[T].user_id = tickets[T].user_id
               /\ tickets[T].user_id \notin DOMAIN users'
               /\ tickets[T].user_id \notin AllKeys => tickets[T].user_id \notin AllKeys'
        /\ C19_EventGone(T) =>
               /\ T \in DOMAIN tickets'
               /\ tickets'[T].event_id = tickets[T].event_id
               /\ tickets[T].event_id \notin DOMAIN events'
               /\ tickets[T].event_id \notin AllKeys => tickets[T].event_id \notin AllKeys'

\* C19: once a stored ticket T references a User or an Event that existed and
\* was deleted, no later sequence of operations ever removes T from the Ticket
\* store or changes the dangling field: every delete_ticket(T) fails with
\* NotFound, every update_ticket(T, p) that would change the dangling
\* reference fails with NotFound, and the deleted id is never reissued to a
\* new record.
C19_DanglingForever == []C19_Stuck /\ [][C19_StaysDangling]_vars

\* A ticket that no update has written (updated_at is None) and that is in
\* the ticket_ids of its own event got there by a create_ticket whose link
\* steps all succeeded, so its user existed then.  Such a ticket is stored,
\* its user has been deleted since, delete_ticket and a reassignment fail on
\* it, and another record can still be created.
C19_Witness ==
    \E T \in DOMAIN tickets :
        /\ tickets[T].updated_at = None
        /\ tickets[T].event_id \in DOMAIN events
        /\ contains(events[tickets[T].event_id].ticket_ids, T)
        /\ C19_UserGone(T)
        /\ tickets[T].user_id \notin AllKeys
        /\ DeleteTicket(T).res = NotFound("user", tickets[T].user_id)
        /\ \E U2 \in AnyId \ {tickets[T].user_id} :
               UpdateTicket(T, [event_id |-> tickets[T].event_id, user_id |-> U2]).res
                   = NotFound("user", tickets[T].user_id)
        /\ counter < MaxId

\* C20 (as claimed): after delete_ticket(T) returns success, T appears in no
\* Event's ticket_ids and in no User's ticket_ids anywhere in the stores,
\* whatever sequence of operations (including update_ticket calls that
\* returned an error) preceded the deletion.
C20_DeletedTicketListedNowhere ==
    \A T \in DOMAIN tickets :
        LET o == DeleteTicket(T)
        IN  o.res.tag = "Ok" =>
                /\ \A e \in DOMAIN o.events : ~contains(o.events[e].ticket_ids, T)
                /\ \A u \in DOMAIN o.users : ~contains(o.users[u].ticket_ids, T)

\* C20 (amended): after delete_ticket(T) returns success, T appears in no
\* Event's ticket_ids and not in the ticket_ids of the User the deleted record
\* referenced; the ticket_ids of the other users are as they were before the
\* call, so a user to whose list a failed update_ticket had added T keeps T.
C20_DeletedTicketUnlisted ==
    \A T \in DOMAIN tickets :
        LET o == DeleteTicket(T)
            U == tickets[T].user_id
        IN  o.res.tag = "Ok" =>
                /\ T \notin DOMAIN o.tickets
                /\ \A e \in DOMAIN o.events : ~contains(o.events[e].ticket_ids, T)
                /\ U \in DOMAIN o.users /\ ~contains(o.users[U].ticket_ids, T)
                /\ \A u \in DOMAIN o.users \ {U} : o.users[u] = users[u]

\* a ticket can be deleted while another user than its own lists it, after an
\* update_ticket that moved it there and then failed at the event step
C20_Witness ==
    \E T \in DOMAIN tickets, u \in DOMAIN users :
        /\ u # tickets[T].user_id
        /\ contains(users[u].ticket_ids, T)
        /\ DeleteTicket(T).res.tag = "Ok"
        /\ contains(DeleteTicket(T).users[u].ticket_ids, T)

====
